---- MODULE Spec2Model ----
(***************************************************************************)
(* Model of src/run.ts: an interactive command-line client that loads a    *)
(* config, lists the shop's publications once and then loops over          *)
(* { ask product id, list its publications, ask target, publish }.         *)
(*                                                                         *)
(* main is one async function.  pc names the I/O operation main is         *)
(* awaiting; each action is the arrival of that operation's result         *)
(* followed by everything main does up to its next await.  The config      *)
(* write of loadConfig is started and not awaited, so it is a second       *)
(* activity with its own completion actions.                               *)
(*                                                                         *)
(* Runtime assumed: Node.js with its default unhandled-rejection mode      *)
(* (throw): a rejected promise nobody handles ends the process, code 1.    *)
(***************************************************************************)
EXTENDS Integers, Sequences, FiniteSets, TLC

VARIABLES
    pc,               \* the operation main awaits, or "done" / "rejected"
    exited,           \* the process has terminated
    exitCode,         \* its exit code (meaningful once exited)
    configFile,       \* config.json on disk
    writeInFlight,    \* the un-awaited fs.promises.writeFile has not settled
    writeText,        \* the text that write carries
    config,           \* main's const config
    client,           \* main's const client (url and header of the transport)
    allPublications,  \* main's const allPublications
    listResponse,     \* the response listPublications received
    productId,        \* the loop's const productId
    menu,             \* the pubs argument of the pending askPublicationGid
    publicationGid,   \* the loop's const publicationGid
    publishResponse,  \* the response the last publishProduct received
    publishOutcome,   \* how the last publishProduct call ended
    iter,             \* number of the current loop iteration (0 before the loop)
    log               \* the I/O operations main issued and saw settle, in order

vars == <<pc, exited, exitCode, configFile, writeInFlight, writeText, config,
          client, allPublications, listResponse, productId, menu,
          publicationGid, publishResponse, publishOutcome, iter, log>>

----------------------------------------------------------------------------
(* Bounds *)

\* loop iterations explored; in the last one the operator can only stop
MaxIter == 3
\* edges a response may carry beyond the page limit the query asks for
MaxOver == 1

(* Program constants *)

\* publications(first: 20)
PageLimit == 20

----------------------------------------------------------------------------
(* Values *)

\* JavaScript's undefined: the value of an absent property, a bare return
Undefined == "<undefined>"

\* the fields of type Config
ConfigFields == <<"shopName", "accessToken">>

NoConfig == [shopName |-> Undefined, accessToken |-> Undefined]

\* what the operator can type at the prompts
ShopNames == {"acme"}
AccessTokens == {"tok"}
ProductIds == {"", "4711", "4712"}

\* the publications the shop has (type Publication)
Publications ==
    << [gid |-> "gid://shopify/Publication/1", name |-> "Online Store"],
       [gid |-> "gid://shopify/Publication/2", name |-> "Point of Sale"] >>

\* userErrors arrays a publish response can carry
UserErrorLists ==
    { << >>,
      << [message |-> "already published"] >>,
      << [message |-> "already published"], [message |-> "not publishable"] >> }

Range(s) == {s[i] : i \in DOMAIN s}


----------------------------------------------------------------------------
(* The prompts library, as run.ts uses it: the questions are asked in     *)
(* order; `answered` of them are answered before the operator cancels (or *)
(* all are).  The answers object has the answered fields only, so every   *)
(* other field reads as undefined.                                        *)

prompts(questions, typed, answered) ==
    [k \in Range(questions) |->
        IF \E i \in 1..answered : questions[i] = k THEN typed[k] ELSE Undefined]

(* JSON.stringify leaves out the members whose value is undefined;        *)
(* JSON.parse of a well-formed text gives the members back.               *)

EmptyText == [wellFormed |-> FALSE, members |-> {}]

JSONstringify(obj) ==
    [wellFormed |-> TRUE,
     members |-> {<<k, obj[k]>> : k \in {f \in DOMAIN obj : obj[f] # Undefined}}]

JSONparse(text) ==
    [k \in Range(ConfigFields) |->
        IF \E m \in text.members : m[1] = k
        THEN (CHOOSE m \in text.members : m[1] = k)[2]
        ELSE Undefined]

\* a value inside a template literal
TemplateStr(v) == IF v = Undefined THEN "undefined" ELSE v

----------------------------------------------------------------------------
(* Config file *)

AbsentFile == [exists |-> FALSE, text |-> EmptyText]
FileWith(text) == [exists |-> TRUE, text |-> text]

\* the files a run can find on disk
InitialFiles ==
    { AbsentFile,
      FileWith(EmptyText),
      FileWith(JSONstringify([shopName |-> "acme", accessToken |-> "tok"])) }

\* what a write that never settles can leave behind: nothing yet, a file
\* created but not filled, or the whole text
CutOff == {configFile, FileWith(EmptyText), FileWith(writeText)}

----------------------------------------------------------------------------
(* class Client *)

Client(cfg) ==
    [url |-> <<"https://", TemplateStr(cfg.shopName),
               ".myshopify.com/admin/api/2021-07/graphql.json">>,
     headers |-> [XShopifyAccessToken |-> cfg.accessToken]]

NoClient == Client(NoConfig)

ProductGid(id) == <<"gid://shopify/Product/", id>>

\* a client that cuts the list at the page limit itself
listPublications_firstPage(r) ==
    [i \in 1..(IF Len(r.edges) > PageLimit THEN PageLimit ELSE Len(r.edges)) |->
        r.edges[i].node]

\* r.publications.edges.map(e => e.node)
listPublications(r) == [i \in 1..Len(r.edges) |-> r.edges[i].node]

\* r.product.resourcePublicationsV2.edges.map(e => e.node.publication)
listProductPublications(r) == [i \in 1..Len(r.edges) |-> r.edges[i].node.publication]

\* a length test that is off by one
publishProduct_offByOne(r) ==
    IF Len(r.userErrors) > 1 THEN "Unable to publish" ELSE "resolved"

\* how publishProduct ends on a response r
publishProduct(r) ==
    IF Len(r.userErrors) > 0 THEN "Unable to publish" ELSE "resolved"

(* Responses of the remote API.  The client does not look at the length   *)
(* of an edge list, so lists longer than the page limit are enumerated    *)
(* beside those a conforming server sends.                                *)

EdgeList(n, s) ==
    [i \in 1..n |-> [node |-> Publications[((i + s - 2) % Len(Publications)) + 1]]]

ResponseLens == (0..1) \cup (PageLimit..(PageLimit + MaxOver))

\* the short lists start at every publication, the long ones at the first
ListResponses ==
    UNION { {[edges |-> EdgeList(n, s)] :
                s \in {k \in 1..Len(Publications) : k = 1 \/ n = 1}} :
            n \in ResponseLens }

ProductResponses ==
    { [edges |-> << [node |-> [publication |-> Publications[1]]] >>] }

PublishResponses == {[userErrors |-> e] : e \in UserErrorLists}

NoListResponse == [edges |-> << >>]
NoPublishResponse == [userErrors |-> << >>]

----------------------------------------------------------------------------
(* Prompts *)

askConfig(typed, answered) == prompts(ConfigFields, typed, answered)

askProductId(typed, answered) ==
    prompts(<<"productId">>, [productId |-> typed], answered).productId

\* choices: [skipChoice, ...pubChoices]
Choices(pubs) ==
    << [title |-> "Skip", value |-> ""] >>
        \o [i \in 1..Len(pubs) |-> [title |-> pubs[i].name, value |-> pubs[i].gid]]

\* the operator picks choice number `pick`, or cancels (answered = 0)
askPublicationGid(pubs, pick, answered) ==
    LET selected == prompts(<<"publicationGid">>,
                            [publicationGid |-> Choices(pubs)[pick].value],
                            answered).publicationGid
    IN  IF selected = "" THEN Undefined ELSE selected

----------------------------------------------------------------------------
(* The log of I/O operations *)

Ev(phase, op, it, args) == [phase |-> phase, op |-> op, iter |-> it, args |-> args]


----------------------------------------------------------------------------
(* How main moves on *)

\* main awaits its next operation
Awaits(op) ==
    /\ pc' = op
    /\ UNCHANGED <<exited, exitCode, configFile, writeInFlight, writeText>>

\* a rejection that is reported and leaves the exit code at 0
Unhandled_warnOnly ==
    /\ pc' = "rejected"
    /\ exited' = TRUE
    /\ exitCode' = 0
    /\ configFile' \in (IF writeInFlight THEN CutOff ELSE {configFile})
    /\ UNCHANGED <<writeInFlight, writeText>>

\* main's promise rejects; main() is called with no handler, so the process
\* ends with code 1, cutting off a write that has not settled
Unhandled ==
    /\ pc' = "rejected"
    /\ exited' = TRUE
    /\ exitCode' = 1
    /\ configFile' \in (IF writeInFlight THEN CutOff ELSE {configFile})
    /\ UNCHANGED <<writeInFlight, writeText>>

\* main returns after "Done!"; the process ends, code 0, once nothing is
\* left in flight
Returns ==
    /\ pc' = "done"
    /\ exited' = ~writeInFlight
    /\ UNCHANGED <<exitCode, configFile, writeInFlight, writeText>>

\* a loop test that forgets the empty string
StopsLoop_undefinedOnly(id) == id = Undefined

\* if (productId === void 0 || productId === "")
StopsLoop(id) == id = Undefined \/ id = ""

\* a skip test on the Skip choice's own value instead of undefined
Skips_emptyString(gid) == gid = ""

\* if (publicationGid === void 0)
Skips(gid) == gid = Undefined

\* a menu made of the product's current publications
AskTargetMenu_current(all, productPublications) == productPublications

\* the list main hands to askPublicationGid: askPublicationGid(allPublications)
AskTargetMenu(all, productPublications) == all

\* the events of: new Client(config); client.listPublications()
ListAllIssued(c) == << Ev("issued", "listPublications", 0, <<c.url>>) >>

----------------------------------------------------------------------------
Init ==
    /\ configFile \in InitialFiles
    /\ pc = IF configFile.exists THEN "readFile" ELSE "askConfig"
    /\ log = << Ev("issued", IF configFile.exists THEN "readFile" ELSE "askConfig",
                   0, << >>) >>
    /\ exited = FALSE
    /\ exitCode = 0
    /\ writeInFlight = FALSE
    /\ writeText = EmptyText
    /\ config = NoConfig
    /\ client = NoClient
    /\ allPublications = << >>
    /\ listResponse = NoListResponse
    /\ productId = Undefined
    /\ menu = << >>
    /\ publicationGid = Undefined
    /\ publishResponse = NoPublishResponse
    /\ publishOutcome = "none"
    /\ iter = 0

\* loadConfig, file present: JSON.parse(await readFile(...)), then main up to
\* its await of listPublications
ReadFileDone ==
    /\ pc = "readFile" /\ ~exited
    /\ IF configFile.text.wellFormed
       THEN /\ config' = JSONparse(configFile.text)
            /\ client' = Client(config')
            /\ log' = log \o << Ev("resolved", "readFile", 0, << >>),
                                Ev("resolved", "loadConfig", 0, <<config'>>) >>
                          \o ListAllIssued(client')
            /\ Awaits("listPublications")
       ELSE /\ log' = Append(log, Ev("resolved", "readFile", 0, << >>))
            /\ Unhandled
            /\ UNCHANGED <<config, client>>
    /\ UNCHANGED <<allPublications, listResponse, productId, menu, publicationGid,
                   publishResponse, publishOutcome, iter>>

\* loadConfig, file absent: askConfig answers, the write is started and not
\* awaited, then main up to its await of listPublications
AskConfigDone ==
    /\ pc = "askConfig" /\ ~exited
    /\ \E s \in ShopNames, t \in AccessTokens, unanswered \in 0..Len(ConfigFields) :
          config' = askConfig([shopName |-> s, accessToken |-> t],
                              Len(ConfigFields) - unanswered)
    /\ writeInFlight' = TRUE
    /\ writeText' = JSONstringify(config')
    /\ client' = Client(config')
    /\ log' = log \o << Ev("resolved", "askConfig", 0, <<config'>>),
                        Ev("issued", "writeFile", 0, <<writeText'>>),
                        Ev("resolved", "loadConfig", 0, <<config'>>) >>
                  \o ListAllIssued(client')
    /\ pc' = "listPublications"
    /\ UNCHANGED <<exited, exitCode, configFile, allPublications, listResponse,
                   productId, menu, publicationGid, publishResponse, publishOutcome,
                   iter>>

\* the write settles: the file holds the text; a process whose main has
\* returned has nothing left to wait for
WriteFileDone ==
    /\ writeInFlight /\ ~exited
    /\ writeInFlight' = FALSE
    /\ configFile' = FileWith(writeText)
    /\ exited' = (pc = "done")
    /\ UNCHANGED <<log, pc, exitCode, writeText, config, client, allPublications, menu,
                   listResponse, productId, publicationGid, publishResponse,
                   publishOutcome, iter>>

\* the write fails (no permission, disk full): its promise rejects and
\* nobody handles it, so the process ends with code 1
WriteFileFails ==
    /\ writeInFlight /\ ~exited
    /\ writeInFlight' = FALSE
    /\ configFile' \in {configFile, FileWith(EmptyText)}
    /\ exited' = TRUE
    /\ exitCode' = 1
    /\ UNCHANGED <<log, pc, writeText, config, client, allPublications, menu,
                   listResponse, productId, publicationGid, publishResponse,
                   publishOutcome, iter>>

\* listPublications resolves; main prints the list and asks the first
\* product id
ListPublicationsResolves ==
    /\ pc = "listPublications" /\ ~exited
    /\ \E r \in ListResponses : listResponse' = r
    /\ allPublications' = listPublications(listResponse')
    /\ iter' = iter + 1
    /\ log' = log \o << Ev("resolved", "listPublications", 0, <<allPublications'>>),
                        Ev("issued", "askProductId", iter', << >>) >>
    /\ Awaits("askProductId")
    /\ UNCHANGED <<config, client, menu, productId, publicationGid, publishResponse,
                   publishOutcome>>

\* the request fails (HTTP failure, GraphQL errors): main rejects
ListPublicationsRejects ==
    /\ pc = "listPublications" /\ ~exited
    /\ log' = Append(log, Ev("rejected", "listPublications", 0, << >>))
    /\ Unhandled
    /\ UNCHANGED <<config, client, menu, allPublications, listResponse, productId,
                   publicationGid, publishResponse, publishOutcome, iter>>

\* askProductId answers: stop, or list the product's publications
AskProductIdDone ==
    /\ pc = "askProductId" /\ ~exited
    /\ \E typed \in ProductIds, answered \in 0..1 :
          /\ productId' = askProductId(typed, answered)
          /\ iter < MaxIter \/ StopsLoop(productId')
    /\ IF StopsLoop(productId')
       THEN /\ log' = Append(log, Ev("resolved", "askProductId", iter, <<productId'>>))
            /\ Returns
       ELSE /\ log' = log \o << Ev("resolved", "askProductId", iter, <<productId'>>),
                                Ev("issued", "listProductPublications", iter,
                                   <<ProductGid(productId')>>) >>
            /\ Awaits("listProductPublications")
    /\ UNCHANGED <<config, client, menu, allPublications, listResponse, publicationGid,
                   publishResponse, publishOutcome, iter>>

\* listProductPublications resolves; main prints the list and asks where to
\* publish, with allPublications as the menu
ListProductPublicationsResolves ==
    /\ pc = "listProductPublications" /\ ~exited
    /\ \E r \in ProductResponses :
          LET productPublications == listProductPublications(r)
          IN  /\ menu' = AskTargetMenu(allPublications, productPublications)
              /\ log' = log \o << Ev("resolved", "listProductPublications", iter,
                                      <<ProductGid(productId), productPublications>>),
                                   Ev("issued", "askPublicationGid", iter, <<menu'>>) >>
    /\ Awaits("askPublicationGid")
    /\ UNCHANGED <<config, client, allPublications, listResponse, productId,
                   publicationGid, publishResponse, publishOutcome, iter>>

ListProductPublicationsRejects ==
    /\ pc = "listProductPublications" /\ ~exited
    /\ log' = Append(log, Ev("rejected", "listProductPublications", iter, << >>))
    /\ Unhandled
    /\ UNCHANGED <<config, client, menu, allPublications, listResponse, productId,
                   publicationGid, publishResponse, publishOutcome, iter>>

\* askPublicationGid answers: skip and ask the next product id, or publish
AskPublicationGidDone ==
    /\ pc = "askPublicationGid" /\ ~exited
    /\ \E pick \in 1..Len(Choices(menu)), answered \in 0..1 :
          publicationGid' = askPublicationGid(menu, pick, answered)
    /\ IF Skips(publicationGid')
       THEN /\ iter' = iter + 1
            /\ log' = log \o << Ev("resolved", "askPublicationGid", iter,
                                   <<publicationGid'>>),
                                Ev("issued", "askProductId", iter', << >>) >>
            /\ Awaits("askProductId")
       ELSE /\ iter' = iter
            /\ log' = log \o << Ev("resolved", "askPublicationGid", iter,
                                   <<publicationGid'>>),
                                Ev("issued", "publishProduct", iter,
                                   <<ProductGid(productId), publicationGid'>>) >>
            /\ Awaits("publishProduct")
    /\ UNCHANGED <<config, client, menu, allPublications, listResponse, productId,
                   publishResponse, publishOutcome>>

\* the publish mutation answers: publishProduct throws on user errors, and
\* otherwise main asks the next product id
PublishProductResponds ==
    /\ pc = "publishProduct" /\ ~exited
    /\ \E r \in PublishResponses : publishResponse' = r
    /\ publishOutcome' = publishProduct(publishResponse')
    /\ IF publishOutcome' = "resolved"
       THEN /\ iter' = iter + 1
            /\ log' = log \o << Ev("resolved", "publishProduct", iter, << >>),
                                Ev("issued", "askProductId", iter', << >>) >>
            /\ Awaits("askProductId")
       ELSE /\ iter' = iter
            /\ log' = Append(log, Ev("rejected", "publishProduct", iter,
                                     <<publishOutcome'>>))
            /\ Unhandled
    /\ UNCHANGED <<config, client, menu, allPublications, listResponse, productId,
                   publicationGid>>

\* the publish request itself fails
PublishProductRejects ==
    /\ pc = "publishProduct" /\ ~exited
    /\ publishOutcome' = "request failed"
    /\ log' = Append(log, Ev("rejected", "publishProduct", iter, <<publishOutcome'>>))
    /\ Unhandled
    /\ UNCHANGED <<config, client, menu, allPublications, listResponse, productId,
                   publicationGid, publishResponse, iter>>

Next ==
    \/ ReadFileDone
    \/ AskConfigDone
    \/ WriteFileDone
    \/ WriteFileFails
    \/ ListPublicationsResolves
    \/ ListPublicationsRejects
    \/ AskProductIdDone
    \/ ListProductPublicationsResolves
    \/ ListProductPublicationsRejects
    \/ AskPublicationGidDone
    \/ PublishProductResponds
    \/ PublishProductRejects

Spec == Init /\ [][Next]_vars


----------------------------------------------------------------------------
(* Reading the log *)

Events(phase, op) == {i \in DOMAIN log : log[i].phase = phase /\ log[i].op = op}

NetworkOps == {"listPublications", "listProductPublications", "publishProduct"}
PromptOps == {"askConfig", "askProductId", "askPublicationGid"}

\* the operations main is suspended on
PendingOps == {"readFile"} \cup NetworkOps \cup PromptOps

\* I/O operations outstanding: the one main awaits, and the config write
Outstanding ==
    (IF pc \in PendingOps /\ ~exited THEN 1 ELSE 0) + (IF writeInFlight THEN 1 ELSE 0)

IsComplete(cfg) == \A k \in Range(ConfigFields) : cfg[k] # Undefined

FileAbsentAtStart == log[1].op = "askConfig"

Gids(ps) == {ps[i].gid : i \in DOMAIN ps}


----------------------------------------------------------------------------
(* C1: when askPublicationGid returns the skip sentinel (undefined), no    *)
(* publishProduct call is made in that iteration and the next operation    *)
(* main issues is askProductId; every publishProduct call is made in an    *)
(* iteration whose askPublicationGid returned a value other than the       *)
(* sentinel.                                                               *)
C1_SkipMeansNoPublish ==
    /\ \A i \in Events("resolved", "askPublicationGid") :
          log[i].args[1] = Undefined =>
             /\ \A j \in Events("issued", "publishProduct") : log[j].iter # log[i].iter
             /\ i < Len(log)
             /\ log[i + 1].phase = "issued" /\ log[i + 1].op = "askProductId"
    /\ \A j \in Events("issued", "publishProduct") :
          \E i \in Events("resolved", "askPublicationGid") :
             /\ i < j
             /\ log[i].iter = log[j].iter
             /\ log[i].args[1] # Undefined

\* a skipped iteration followed by an iteration that publishes
C1_Witness ==
    \E i \in Events("resolved", "askPublicationGid"),
       j \in Events("issued", "publishProduct") :
          log[i].args[1] = Undefined /\ i < j

(* C2: once askProductId returns "" or undefined, main issues no network   *)
(* call and no prompt any more, main is done, and the process exits with   *)
(* code 0.                                                                 *)
C2_StopEndsRun ==
    \A i \in Events("resolved", "askProductId") :
       log[i].args[1] \in {"", Undefined} =>
          /\ \A j \in (i + 1)..Len(log) :
                log[j].phase # "issued" /\ log[j].op \notin NetworkOps \cup PromptOps
          /\ pc = "done"
          /\ exited => exitCode = 0

(* C3: a publishProduct call that got a response resolves when the         *)
(* response's userErrors is empty and fails with "Unable to publish" when  *)
(* it is not, whatever the array holds.                                    *)
C3_PublishOutcome ==
    publishOutcome \notin {"none", "request failed"} =>
       /\ Len(publishResponse.userErrors) = 0 => publishOutcome = "resolved"
       /\ Len(publishResponse.userErrors) > 0 =>
             /\ publishOutcome = "Unable to publish"
             /\ log[Len(log)] = Ev("rejected", "publishProduct", iter,
                                   <<"Unable to publish">>)

\* a publish that resolved, then one that failed on two user errors
C3_Witness ==
    /\ Events("resolved", "publishProduct") # {}
    /\ publishOutcome = "Unable to publish"
    /\ Len(publishResponse.userErrors) = 2

(* C4: a failed listPublications, listProductPublications or               *)
(* publishProduct is the last thing the run does: nothing is issued after  *)
(* it, main never reaches "done", and the process has exited with a        *)
(* non-zero code.                                                          *)
C4_FailureIsFatal ==
    \A i \in DOMAIN log :
       (log[i].phase = "rejected" /\ log[i].op \in NetworkOps) =>
          /\ i = Len(log)
          /\ pc = "rejected"
          /\ exited
          /\ exitCode # 0

\* a publish that failed on user errors after an iteration that published
C4_Witness ==
    /\ Events("resolved", "publishProduct") # {}
    /\ \E i \in Events("rejected", "publishProduct") :
          log[i].args[1] = "Unable to publish"
    /\ exited


(* C5: a run that found no config file and collected both fields has,     *)
(* when it ends, asked for the config once, started one write, and left a  *)
(* file holding exactly the two collected fields, which are the object     *)
(* loadConfig returned.                                                    *)
C5_AbsentFileWrittenOnce ==
    (/\ exited
     /\ FileAbsentAtStart
     /\ \A a \in Events("resolved", "askConfig") : IsComplete(log[a].args[1])) =>
       /\ Cardinality(Events("issued", "askConfig")) = 1
       /\ Cardinality(Events("issued", "writeFile")) = 1
       /\ IsComplete(config)
       /\ configFile = FileWith(JSONstringify(config))
       /\ \A a \in Events("resolved", "askConfig"),
             l \in Events("resolved", "loadConfig") : log[l].args[1] = log[a].args[1]

(* C6: a config prompt cancelled before both fields are entered aborts     *)
(* the run: no object lacking shopName or accessToken is returned by       *)
(* loadConfig, written to the file, or used for a Client that sends a      *)
(* request.                                                                *)
C6_NoPartialConfig ==
    /\ \A a \in Events("resolved", "askConfig") :
          ~IsComplete(log[a].args[1]) =>
             pc = "rejected" /\ Events("issued", "listPublications") = {}
    /\ \A l \in Events("resolved", "loadConfig") : IsComplete(log[l].args[1])
    /\ \A w \in Events("issued", "writeFile") : IsComplete(JSONparse(log[w].args[1]))
    /\ Events("issued", "listPublications") # {} =>
          IsComplete(config) /\ client = Client(config)

(* C7 as first stated: the list listPublications returns is never longer   *)
(* than 20 and is exactly the nodes of the response's edges, in order.     *)
C7_NeverOverPageLimit ==
    \A i \in Events("resolved", "listPublications") :
       LET ps == log[i].args[1]
       IN  /\ Len(ps) <= PageLimit
           /\ Len(ps) = Len(listResponse.edges)
           /\ \A n \in 1..Len(ps) : ps[n] = listResponse.edges[n].node

(* C7, amended: the list listPublications returns is exactly the           *)
(* {gid, name} nodes of the response's edges, in response order, for       *)
(* every response; it is as long as the edge list, so it is never longer   *)
(* than 20 when the response keeps to the 20 edges the query asks for.     *)
C7_ExactNodes ==
    \A i \in Events("resolved", "listPublications") :
       LET ps == log[i].args[1]
       IN  /\ Len(ps) = Len(listResponse.edges)
           /\ \A n \in 1..Len(ps) :
                 /\ ps[n].gid = listResponse.edges[n].node.gid
                 /\ ps[n].name = listResponse.edges[n].node.name
           /\ Len(listResponse.edges) <= PageLimit => Len(ps) <= PageLimit
           /\ allPublications = ps

\* a response with more edges than the page limit has been mapped
C7_Witness ==
    \E i \in Events("resolved", "listPublications") :
       Len(listResponse.edges) > PageLimit /\ Len(log[i].args[1]) > PageLimit

(* C8: at most one I/O operation is outstanding in every state, and no     *)
(* write is in flight when the process has terminated.                     *)
C8_AtMostOneOutstanding ==
    /\ Outstanding <= 1
    /\ exited => ~writeInFlight

(* C9: listPublications is called once, before the first askProductId,     *)
(* and the list it returned is the menu of every askPublicationGid; it is  *)
(* not fetched again and allPublications does not change.                  *)
C9_ListedOnce ==
    /\ Cardinality(Events("issued", "listPublications")) <= 1
    /\ pc = "done" => Cardinality(Events("issued", "listPublications")) = 1
    /\ \A j \in Events("issued", "askProductId") :
          \E i \in Events("resolved", "listPublications") :
             i < j /\ allPublications = log[i].args[1]
    /\ \A j \in Events("issued", "askPublicationGid") :
          \E i \in Events("resolved", "listPublications") :
             i < j /\ log[j].args[1] = log[i].args[1]

\* the menu has been handed out in two iterations, a publish in between
C9_Witness ==
    /\ Cardinality(Events("issued", "askPublicationGid")) >= 2
    /\ Events("resolved", "publishProduct") # {}
    /\ Len(allPublications) > 0

(* C10: every publishProduct(p, g) call has p the non-empty product id     *)
(* askProductId returned in the same iteration, follows a resolved         *)
(* listProductPublications(p) of that iteration, and has g the gid of a    *)
(* publication in allPublications; an iteration makes at most one such     *)
(* call.                                                                   *)
C10_PublishArguments ==
    \A j \in Events("issued", "publishProduct") :
       /\ \E a \in Events("resolved", "askProductId") :
             /\ a < j
             /\ log[a].iter = log[j].iter
             /\ log[a].args[1] \notin {"", Undefined}
             /\ log[j].args[1] = ProductGid(log[a].args[1])
             /\ \E l \in Events("resolved", "listProductPublications") :
                   /\ a < l /\ l < j
                   /\ log[l].iter = log[j].iter
                   /\ log[l].args[1] = log[j].args[1]
       /\ log[j].args[2] \in Gids(allPublications)
       /\ \A k \in Events("issued", "publishProduct") :
             log[k].iter = log[j].iter => k = j

\* two iterations have published, two different products
C10_Witness ==
    \E j, k \in Events("issued", "publishProduct") :
       log[j].iter # log[k].iter /\ log[j].args[1] # log[k].args[1]

====
